---- MODULE Spec2Model ----
(***************************************************************************)
(* Model of the SQL REPL in src/src/main.cpp: the line accumulator of the  *)
(* main loop, the dispatch of meta-commands and SQL, the pager             *)
(* fetchAndPrintResults, and the per-cell rendering.                       *)
(*                                                                         *)
(* Text is modelled as sequences of one-character strings, so that         *)
(* back(), substr(), find() and == act on characters as in the code.       *)
(***************************************************************************)
EXTENDS Integers, Sequences, FiniteSets, TLC

VARIABLES
    pc,               \* "prompt" (in the for(;;) loop), "exited" (return 0), "fatal" (return 1)
    activeStatement,  \* std::optional<OracleStatement>: <<>> or <<stmt>>
    lineBuilder,      \* std::stringstream lineBuilder: the characters accumulated
    inMultLine,       \* bool inMultLine
    history,          \* the lines handed to linenoiseHistoryAdd, in call order
    historyPath,      \* TRUE iff std::string historyPath is non-empty
    historySaved,     \* TRUE once linenoiseHistorySave was called
    event,            \* what the last loop iteration read, produced and printed
    track,            \* the rows shown so far of the statement last assigned to activeStatement
    expected,         \* concatenation of the raw lines of the current sequence, markers stripped
    cell,             \* the CellValue handed to the renderer (cell rendering specification)
    cellStr,          \* the text rendered for it, <<"?">> before rendering
    pageArgs,         \* the statement and maxResults handed to the pager (pager specification)
    pageRes           \* what that call did, and whether the process survived it

vars == <<pc, activeStatement, lineBuilder, inMultLine, history, historyPath,
          historySaved, event, track, expected, cell, cellStr, pageArgs, pageRes>>

(***************************************************************************)
(* Bounds of the model and constants of the program.                       *)
(***************************************************************************)
MaxRows == 41          \* result sets have 0..MaxRows rows
MaxHistory == 1        \* --maxHistorySize: the lines the line reader retains
MaxPending == 2        \* characters held in lineBuilder across continuation lines
kPageSize == 20        \* fetchAndPrintResults(*activeStatement, 20)
IntMax == 2147483647   \* std::numeric_limits<int>::max()
kRawBits == 3          \* bits of a column value explored (64 in the driver)
MaxNullRow == 2        \* rows 1..MaxNullRow of a result set may hold a null value

(***************************************************************************)
(* Text.                                                                   *)
(***************************************************************************)
kBackslash == "\\"
kExit == <<".", "e", "x", "i", "t">>
kIt == <<".", "i", "t">>
kDescribeKeyword == <<".", "d", "e", "s", "c", "r", "i", "b", "e", " ">>

\* The raw lines linenoise() may return.
RawLines ==
    { <<>>,
      <<kBackslash>>,
      <<".", "i", kBackslash>>,
      <<"t">>,
      kIt,
      <<" ">> \o kIt,
      kExit,
      kDescribeKeyword \o <<"t">> }

\* line.back() == '\\'.  back() of an empty string_view is undefined: it reads
\* the byte before the buffer, which may or may not be a backslash (ub).
EndsWithBackslash(line, ub) ==
    IF line = <<>> THEN ub ELSE line[Len(line)] = kBackslash

\* The outcomes of line.back() == '\\' that are open: both for an empty line.
UbOutcomes(line) == IF line = <<>> THEN BOOLEAN ELSE {FALSE}

\* line.substr(0, line.size() - 1); for an empty line size() - 1 wraps to npos
\* and the whole (empty) line is returned.
DropLast(line) ==
    IF line = <<>> THEN <<>> ELSE SubSeq(line, 1, Len(line) - 1)

\* fullLine.find(prefix) == 0
StartsWith(s, prefix) ==
    /\ Len(prefix) <= Len(s)
    /\ SubSeq(s, 1, Len(prefix)) = prefix

(***************************************************************************)
(* The driver's statement: a result set of n rows, pos of which have been  *)
(* advanced over; executed after execute() returned.                       *)
(***************************************************************************)
NewStatement(n) == [n |-> n, pos |-> 0, executed |-> FALSE, nulls |-> {}]

\* The statement whose rows in nulls hold a null column value.
WithNulls(stmt, nulls) == [stmt EXCEPT !.nulls = nulls]

Execute(stmt) == [stmt EXCEPT !.executed = TRUE]

\* The sizes of the result sets the database returns: those around the page
\* boundaries, up to MaxRows.
RowCounts ==
    {n \in 0..MaxRows : n % kPageSize \in {0, 1, kPageSize - 1}}

\* The sizes of the catalog listings .describe gets: none, one, many rows.
DescribeRowCounts == {0, 1, MaxRows}

\* Where a driver call of one command fails: nowhere, in prepareStatement, in
\* execute, or in fetch().
FailPoints == {"none", "prepare", "execute", "fetch"}

FetchFailPoints == {"none", "fetch"}

\* The result sets a command can meet: a statement that fails in
\* prepareStatement or execute never has one.
ResultSizes(sizes, fail) ==
    IF fail \in {"prepare", "execute"} THEN {0} ELSE sizes

\* The index of the fetch() call of fetchAndPrintResults that throws, 0 for none.
FailingFetch(fail) == IF fail = "fetch" THEN 1 ELSE 0

\* stmt.fetch(): advances to the next row and reports whether there is one;
\* throws on a driver failure and on a statement that was never executed.
StmtFetch(stmt, throws) ==
    IF throws \/ ~stmt.executed
    THEN [threw |-> TRUE, found |-> FALSE, stmt |-> stmt]
    ELSE IF stmt.pos < stmt.n
    THEN [threw |-> FALSE, found |-> TRUE, stmt |-> [stmt EXCEPT !.pos = stmt.pos + 1]]
    ELSE [threw |-> FALSE, found |-> FALSE, stmt |-> stmt]

(***************************************************************************)
(* fetchAndPrintResults(stmt, maxResults).  The result records what the    *)
(* call did: the statement afterwards, whether a driver call threw, the    *)
(* rows added to the table that was printed, the number k printed in       *)
(* "Fetched k rows", the returned flag and whether a fetch() found no row, *)
(* and for each row with a null value the table.row() index that was       *)
(* styled, the number of rows the table had then, and the row fetched.     *)
(***************************************************************************)
NoPage ==
    [ran |-> FALSE, stmt |-> NewStatement(0), threw |-> FALSE, noRows |-> FALSE,
     rendered |-> <<>>, fetched |-> 0, ret |-> FALSE, advanceFailed |-> FALSE,
     fetchCalls |-> 0, styled |-> <<>>]

PageThrew(stmt, calls) ==
    [NoPage EXCEPT !.ran = TRUE, !.stmt = stmt, !.threw = TRUE, !.fetchCalls = calls]

\* The while (resCounter < maxResults) loop: the current row is added to the
\* table, then fetch() advances; resCounter counts the rows advanced over.
RECURSIVE FetchLoop(_, _, _, _, _, _, _)
FetchLoop(stmt, maxResults, failK, resCounter, rows, calls, styled) ==
    IF ~(resCounter < maxResults)
    THEN [ran |-> TRUE, stmt |-> stmt, threw |-> FALSE, noRows |-> FALSE,
          rendered |-> rows, fetched |-> resCounter, ret |-> FALSE,
          advanceFailed |-> FALSE, fetchCalls |-> calls, styled |-> styled]
    ELSE LET rows2 == Append(rows, stmt.pos)
             \* table.add_row(rowValues); table.row(resCounter + 1).cell(col)...
             \* The table holds the header row and the rows added so far.
             styled2 == IF stmt.pos \in stmt.nulls
                        THEN Append(styled, [index |-> resCounter + 1,
                                             tableRows |-> 1 + Len(rows2),
                                             row |-> stmt.pos])
                        ELSE styled
             f == StmtFetch(stmt, calls + 1 = failK)
         IN  IF f.threw THEN PageThrew(f.stmt, calls + 1)
             ELSE IF ~f.found
             THEN [ran |-> TRUE, stmt |-> f.stmt, threw |-> FALSE, noRows |-> FALSE,
                   rendered |-> rows2, fetched |-> resCounter, ret |-> TRUE,
                   advanceFailed |-> TRUE, fetchCalls |-> calls + 1, styled |-> styled2]
             ELSE FetchLoop(f.stmt, maxResults, failK, resCounter + 1, rows2, calls + 1,
                            styled2)

fetchAndPrintResults(stmt, maxResults, failK) ==
    LET f == StmtFetch(stmt, failK = 1)
    IN  IF f.threw THEN PageThrew(f.stmt, 1)
        ELSE IF ~f.found
        THEN [ran |-> TRUE, stmt |-> f.stmt, threw |-> FALSE, noRows |-> TRUE,
              rendered |-> <<>>, fetched |-> 0, ret |-> FALSE,
              advanceFailed |-> TRUE, fetchCalls |-> 1, styled |-> <<>>]
        ELSE FetchLoop(f.stmt, maxResults, failK, 1, <<>>, 1, <<>>)

\* table.row(index) on a table of tableRows rows: tabulate indexes its vector
\* of rows unchecked, so an index past the last row is undefined behaviour.
\* The call either gets through or ends the process.
StylingOutcomes(page) ==
    IF \E i \in 1..Len(page.styled) : page.styled[i].index >= page.styled[i].tableRows
    THEN {"returned", "crashed"}
    ELSE {"returned"}

\* What fetchAndPrintResults wrote to std::cout.
PageMessages(page) ==
    IF page.threw THEN <<>>
    ELSE IF page.noRows THEN <<"No rows returned">>
    ELSE <<"Fetched">>

(***************************************************************************)
(* The rendering of one column value, lines 78-120 of fetchAndPrintResults.*)
(* A value is its native type tag, its null flag and the bits of the       *)
(* driver's value union, kRawBits wide; the bits of a null value are       *)
(* whatever the buffer holds.                                              *)
(***************************************************************************)
NativeTypes ==
    {"boolean", "bytes", "double", "float", "int64", "uint64", "timestamp", "other"}

Cells == [tag : NativeTypes, isNull : BOOLEAN, raw : 0..((2 ^ kRawBits) - 1)]

kNullText == <<"<", "n", "u", "l", "l", ">">>
kTrueText == <<"T", "R", "U", "E">>
kFalseText == <<"F", "A", "L", "S", "E">>
kUnsupportedText == <<"u", "n", "s", "u", "p", "p", "o", "r", "t", "e", "d", " ", "t", "y", "p", "e">>
kNotRendered == <<"?">>

Digit(d) == <<SubSeq(<<"0", "1", "2", "3", "4", "5", "6", "7", "8", "9">>, d + 1, d + 1)[1]>>

\* fmt::format("{}", n) of an integer: the decimal digits, "-" before a negative one.
RECURSIVE Digits(_)
Digits(n) == IF n < 10 THEN Digit(n) ELSE Digits(n \div 10) \o Digit(n % 10)

Decimal(n) == IF n < 0 THEN <<"-">> \o Digits(-n) ELSE Digits(n)

\* colValue.as<T>(): the views of the value union.
AsBool(raw) == raw # 0
AsUint(raw) == raw
AsInt(raw) == IF raw >= 2 ^ (kRawBits - 1) THEN raw - (2 ^ kRawBits) ELSE raw
AsBytes(raw) == IF raw % 2 = 0 THEN <<>> ELSE <<"a", " ", "b">>
AsTimestamp(raw) ==
    [year |-> 2000 + raw, month |-> 1 + (raw % 12), day |-> 1 + raw, hour |-> raw,
     minute |-> 0, second |-> raw, fsecond |-> 0, tzHourOffset |-> AsInt(raw)]

\* case DPI_NATIVE_TYPE_TIMESTAMP: "{}-{}-{} {}:{}:{}.{} Z{}"
TimestampText(ts) ==
    Decimal(ts.year) \o <<"-">> \o Decimal(ts.month) \o <<"-">> \o Decimal(ts.day)
      \o <<" ">> \o Decimal(ts.hour) \o <<":">> \o Decimal(ts.minute) \o <<":">>
      \o Decimal(ts.second) \o <<".">> \o Decimal(ts.fsecond)
      \o <<" ", "Z">> \o Decimal(ts.tzHourOffset)

\* The switch with the uint64 case formatted through the signed view.
TypeTextSigned(colValue) ==
    CASE colValue.tag = "boolean" ->
            IF AsBool(colValue.raw) THEN kTrueText ELSE kFalseText
      [] colValue.tag = "bytes" -> <<"\"">> \o AsBytes(colValue.raw) \o <<"\"">>
      [] colValue.tag = "double" -> Decimal(AsInt(colValue.raw))
      [] colValue.tag = "int64" -> Decimal(AsInt(colValue.raw))
      [] colValue.tag = "uint64" -> Decimal(AsInt(colValue.raw))
      [] colValue.tag = "float" -> Decimal(AsInt(colValue.raw))
      [] colValue.tag = "timestamp" -> TimestampText(AsTimestamp(colValue.raw))
      [] OTHER -> kUnsupportedText

\* The switch over colValue.nativeType().
TypeText(colValue) ==
    CASE colValue.tag = "boolean" ->
            IF AsBool(colValue.raw) THEN kTrueText ELSE kFalseText
      [] colValue.tag = "bytes" -> <<"\"">> \o AsBytes(colValue.raw) \o <<"\"">>
      [] colValue.tag = "double" -> Decimal(AsInt(colValue.raw))
      [] colValue.tag = "int64" -> Decimal(AsInt(colValue.raw))
      [] colValue.tag = "uint64" -> Decimal(AsUint(colValue.raw))
      [] colValue.tag = "float" -> Decimal(AsInt(colValue.raw))
      [] colValue.tag = "timestamp" -> TimestampText(AsTimestamp(colValue.raw))
      [] OTHER -> kUnsupportedText

\* if (colValue.isNull()) colValueStr = "<null>";  switch (...) { colValueStr = ... }
\* The switch follows the null test unconditionally and assigns in every case.
colValueStr(colValue) ==
    LET afterNullTest == IF colValue.isNull THEN kNullText ELSE <<>>
        afterSwitch == TypeText(colValue)
    IN  afterSwitch

(***************************************************************************)
(* The handlers of the main loop.  Each returns the outcome of one         *)
(* command: the optional statement and the history afterwards, where       *)
(* control goes, what was printed, the page fetched and the number of      *)
(* driver calls made.                                                      *)
(***************************************************************************)
Outcome(active, hist, next, threw, msgs, page, calls) ==
    [active |-> active, hist |-> hist, next |-> next, threw |-> threw,
     msgs |-> msgs, page |-> page, calls |-> calls, queries |-> <<>>]

\* The outcome o of a command that handed one statement text to
\* prepareStatement and bound the variables binds to it by position.
Prepared(o, text, binds) ==
    [o EXCEPT !.queries = <<[text |-> text, binds |-> binds]>>]

\* linenoiseHistoryAdd(line) under linenoiseHistorySetMaxLen(MaxHistory): the
\* line is appended and the oldest line is dropped once the history is full.
linenoiseHistoryAdd(hist, fullLine) ==
    LET h == Append(hist, fullLine)
    IN  IF Len(h) > MaxHistory THEN Tail(h) ELSE h

\* Classify without the test for the empty line.
ClassifyWithoutEmptyTest(fullLine) ==
    IF fullLine = kExit THEN "exit"
    ELSE IF fullLine = kIt THEN "it"
    ELSE IF StartsWith(fullLine, kDescribeKeyword) THEN "describe"
    ELSE "sql"

\* The classification of a complete line by the if / else-if chain.
Classify(fullLine) ==
    IF fullLine = <<>> THEN "empty"
    ELSE IF fullLine = kExit THEN "exit"
    ELSE IF fullLine = kIt THEN "it"
    ELSE IF StartsWith(fullLine, kDescribeKeyword) THEN "describe"
    ELSE "sql"

\* HandleIt recording the command before it looks for the statement.
HandleItRecordingFirst(active, hist, fail) ==
    IF active = <<>>
    THEN Outcome(active, linenoiseHistoryAdd(hist, kIt), "prompt", FALSE,
                 <<"No active statement">>, NoPage, 0)
    ELSE LET r == fetchAndPrintResults(active[1], kPageSize, FailingFetch(fail))
         IN  IF r.threw
             THEN Outcome(<<r.stmt>>, hist, "fatal", TRUE, <<"Fatal error">>, r, r.fetchCalls)
             ELSE Outcome(IF ~r.ret THEN <<>> ELSE <<r.stmt>>, hist, "prompt", FALSE,
                          PageMessages(r), r, r.fetchCalls)

\* else if (fullLine == ".it") { ... }.  An exception of fetch() is not caught
\* inside the loop: it reaches the function-try-block of main.
HandleIt(active, hist, fail) ==
    IF active = <<>>
    THEN Outcome(active, hist, "prompt", FALSE, <<"No active statement">>, NoPage, 0)
    ELSE LET r == fetchAndPrintResults(active[1], kPageSize, FailingFetch(fail))
         IN  IF r.threw
             THEN Outcome(<<r.stmt>>, hist, "fatal", TRUE, <<"Fatal error">>, r, r.fetchCalls)
             ELSE Outcome(IF ~r.ret THEN <<>> ELSE <<r.stmt>>, hist, "prompt", FALSE,
                          PageMessages(r), r, r.fetchCalls)

\* constexpr auto describeStmtStr: the catalog query, with one placeholder.
describeStmtStr ==
    "select column_name as \"Name\", nullable as \"Null?\", concat(concat(concat(data_type,'('),data_length),')') as \"Type\" from all_tab_columns where table_name = :1"

\* describeTable with the page size of the interactive pager.
describeTableByPages(tableName, n, fail) ==
    IF fail = "prepare"
    THEN [threw |-> TRUE, page |-> NoPage, calls |-> 1, text |-> describeStmtStr,
          binds |-> <<>>]
    ELSE IF fail = "execute"
    THEN [threw |-> TRUE, page |-> NoPage, calls |-> 2, text |-> describeStmtStr,
          binds |-> <<tableName>>]
    ELSE LET r == fetchAndPrintResults(Execute(NewStatement(n)), kPageSize, FailingFetch(fail))
         IN  [threw |-> r.threw, page |-> r, calls |-> 2 + r.fetchCalls,
              text |-> describeStmtStr, binds |-> <<tableName>>]

\* describeTable(conn, tableName): a statement of its own, prepared, the table
\* name bound to its placeholder, executed and printed with an unbounded page.
describeTable(tableName, n, fail) ==
    IF fail = "prepare"
    THEN [threw |-> TRUE, page |-> NoPage, calls |-> 1, text |-> describeStmtStr,
          binds |-> <<>>]
    ELSE IF fail = "execute"
    THEN [threw |-> TRUE, page |-> NoPage, calls |-> 2, text |-> describeStmtStr,
          binds |-> <<tableName>>]
    ELSE LET r == fetchAndPrintResults(Execute(NewStatement(n)), IntMax, FailingFetch(fail))
         IN  [threw |-> r.threw, page |-> r, calls |-> 2 + r.fetchCalls,
              text |-> describeStmtStr, binds |-> <<tableName>>]

\* else if (fullLine.find(kDescribeKeyword) == 0) { ... }
HandleDescribe(active, hist, fullLine, n, fail) ==
    LET table_name == SubSeq(fullLine, Len(kDescribeKeyword) + 1, Len(fullLine))
        d == describeTable(table_name, n, fail)
    IN  Prepared(IF d.threw
                 THEN Outcome(active, hist, "fatal", TRUE, <<"Fatal error">>, d.page, d.calls)
                 ELSE Outcome(active, linenoiseHistoryAdd(hist, fullLine), "prompt", FALSE,
                              PageMessages(d.page), d.page, d.calls),
                 d.text, d.binds)

\* HandleSql recording the line in the history before execute().
HandleSqlRecordingBeforeExecute(active, hist, fullLine, n, fail) ==
    IF fail = "prepare"
    THEN Outcome(active, hist, "prompt", TRUE, <<"Error">>, NoPage, 1)
    ELSE IF fail = "execute"
    THEN Outcome(<<NewStatement(n)>>, linenoiseHistoryAdd(hist, fullLine), "prompt", TRUE,
                 <<"Error">>, NoPage, 2)
    ELSE LET r == fetchAndPrintResults(Execute(NewStatement(n)), kPageSize, FailingFetch(fail))
         IN  Outcome(<<r.stmt>>, linenoiseHistoryAdd(hist, fullLine), "prompt", r.threw,
                     IF r.threw THEN <<"Error">> ELSE PageMessages(r),
                     r, 2 + r.fetchCalls)

\* try { activeStatement = prepareStatement(fullLine); execute();
\*       linenoiseHistoryAdd(fullLine); fetchAndPrintResults(*activeStatement, 20); }
\* catch (const OracleException&) { report }
HandleSql(active, hist, fullLine, n, fail) ==
    Prepared(
        IF fail = "prepare"
        THEN Outcome(active, hist, "prompt", TRUE, <<"Error">>, NoPage, 1)
        ELSE IF fail = "execute"
        THEN Outcome(<<NewStatement(n)>>, hist, "prompt", TRUE, <<"Error">>, NoPage, 2)
        ELSE LET r == fetchAndPrintResults(Execute(NewStatement(n)), kPageSize,
                                           FailingFetch(fail))
             IN  Outcome(<<r.stmt>>, linenoiseHistoryAdd(hist, fullLine), "prompt", r.threw,
                         IF r.threw THEN <<"Error">> ELSE PageMessages(r),
                         r, 2 + r.fetchCalls),
        fullLine, <<>>)

(***************************************************************************)
(* The state machine.                                                      *)
(***************************************************************************)
Event(op, raw, produced, fullLine, fail, o) ==
    [op |-> op, raw |-> raw, produced |-> produced, fullLine |-> fullLine,
     fail |-> fail, threw |-> o.threw, msgs |-> o.msgs, page |-> o.page, calls |-> o.calls,
     queries |-> o.queries]

Quiet == Outcome(<<>>, <<>>, "prompt", FALSE, <<>>, NoPage, 0)

NoPageArgs == [stmt |-> NewStatement(0), maxResults |-> 0]

NoPageRes == [page |-> NoPage, outcome |-> "none"]

NoCell == [tag |-> "other", isNull |-> FALSE, raw |-> 0]

Init ==
    /\ pc = "prompt"
    /\ activeStatement = <<>>
    /\ lineBuilder = <<>>
    /\ inMultLine = FALSE
    /\ history = <<>>
    /\ historyPath = TRUE    \* --historyFile or $HOME gives a path
    /\ historySaved = FALSE
    /\ event = Event("start", <<>>, FALSE, <<>>, "none", Quiet)
    /\ track = [n |-> 0, shown |-> <<>>, exhausted |-> FALSE]
    /\ expected = <<>>
    /\ cell = NoCell
    /\ cellStr = kNotRendered
    /\ pageArgs = NoPageArgs
    /\ pageRes = NoPageRes

\* if (!historyPath.empty()) linenoiseHistorySave(historyPath.c_str()); return 0;
LeaveLoop ==
    /\ pc' = "exited"
    /\ historySaved' = historyPath

\* linenoise() returned nullptr: break.
EndOfInput ==
    /\ pc = "prompt"
    /\ LeaveLoop
    /\ event' = Event("eof", <<>>, FALSE, <<>>, "none", Quiet)
    /\ UNCHANGED <<activeStatement, lineBuilder, inMultLine, history, historyPath,
                   track, expected, cell, cellStr, pageArgs, pageRes>>

\* if (line.back() == '\\') { lineBuilder << line.substr(0, size - 1); ...; continue; }
Continuation(line, ub) ==
    /\ pc = "prompt"
    /\ EndsWithBackslash(line, ub)
    /\ Len(lineBuilder) + Len(DropLast(line)) <= MaxPending
    /\ lineBuilder' = lineBuilder \o DropLast(line)
    /\ inMultLine' = TRUE
    /\ event' = Event("cont", line, FALSE, <<>>, "none", Quiet)
    /\ expected' = IF line # <<>> THEN expected \o DropLast(line) ELSE <<>>
    /\ UNCHANGED <<pc, activeStatement, history, historyPath, historySaved, track,
                   cell, cellStr, pageArgs, pageRes>>

\* else { lineBuilder << line; inMultLine = false; }  fullLine = lineBuilder.str();
\* lineBuilder = std::stringstream{};
Complete(line, ub, kind) ==
    /\ pc = "prompt"
    /\ ~EndsWithBackslash(line, ub)
    /\ Classify(lineBuilder \o line) = kind
    /\ lineBuilder' = <<>>
    /\ inMultLine' = FALSE
    /\ expected' = <<>>

\* if (fullLine.empty()) continue;
EmptyLine(line, ub) ==
    /\ Complete(line, ub, "empty")
    /\ event' = Event("empty", line, TRUE, lineBuilder \o line, "none", Quiet)
    /\ UNCHANGED <<pc, activeStatement, history, historyPath, historySaved, track,
                   cell, cellStr, pageArgs, pageRes>>

\* if (fullLine == ".exit") break;
Exit(line, ub) ==
    /\ Complete(line, ub, "exit")
    /\ LeaveLoop
    /\ event' = Event("exit", line, TRUE, lineBuilder \o line, "none", Quiet)
    /\ UNCHANGED <<activeStatement, history, historyPath, track, cell, cellStr, pageArgs, pageRes>>

It(line, ub) ==
    /\ Complete(line, ub, "it")
    /\ \E fail \in FetchFailPoints :
       \E o \in {HandleIt(activeStatement, history, fail)} :
           /\ activeStatement' = o.active
           /\ history' = o.hist
           /\ pc' = o.next
           /\ event' = Event("it", line, TRUE, lineBuilder \o line, fail, o)
           /\ track' = IF o.page.ran /\ ~o.threw
                       THEN [track EXCEPT !.shown = @ \o o.page.rendered,
                                          !.exhausted = @ \/ o.page.advanceFailed]
                       ELSE track
    /\ UNCHANGED <<historyPath, historySaved, cell, cellStr, pageArgs, pageRes>>

Describe(line, ub) ==
    /\ Complete(line, ub, "describe")
    /\ \E fail \in FailPoints : \E n \in ResultSizes(DescribeRowCounts, fail) :
       \E o \in {HandleDescribe(activeStatement, history, lineBuilder \o line, n, fail)} :
           /\ activeStatement' = o.active
           /\ history' = o.hist
           /\ pc' = o.next
           /\ event' = Event("describe", line, TRUE, lineBuilder \o line, fail, o)
    /\ UNCHANGED <<historyPath, historySaved, track, cell, cellStr, pageArgs, pageRes>>

Sql(line, ub) ==
    /\ Complete(line, ub, "sql")
    /\ \E fail \in FailPoints : \E n \in ResultSizes(RowCounts, fail) :
       \E o \in {HandleSql(activeStatement, history, lineBuilder \o line, n, fail)} :
           /\ activeStatement' = o.active
           /\ history' = o.hist
           /\ pc' = o.next
           /\ event' = Event("sql", line, TRUE, lineBuilder \o line, fail, o)
           /\ track' = IF o.active = activeStatement THEN track
                       ELSE [n |-> n,
                             shown |-> IF o.threw THEN <<>> ELSE o.page.rendered,
                             exhausted |-> ~o.threw /\ o.page.advanceFailed]
    /\ UNCHANGED <<historyPath, historySaved, cell, cellStr, pageArgs, pageRes>>

Next ==
    \/ EndOfInput
    \/ \E line \in RawLines : \E ub \in UbOutcomes(line) : Continuation(line, ub)
    \/ \E line \in RawLines : \E ub \in UbOutcomes(line) : EmptyLine(line, ub)
    \/ \E line \in RawLines : \E ub \in UbOutcomes(line) : Exit(line, ub)
    \/ \E line \in RawLines : \E ub \in UbOutcomes(line) : It(line, ub)
    \/ \E line \in RawLines : \E ub \in UbOutcomes(line) : Describe(line, ub)
    \/ \E line \in RawLines : \E ub \in UbOutcomes(line) : Sql(line, ub)

Spec == Init /\ [][Next]_vars

(***************************************************************************)
(* The rendering of column values on its own: any value the driver can     *)
(* hand over is rendered once.                                             *)
(***************************************************************************)
InitCells ==
    /\ pc = "prompt"
    /\ activeStatement = <<>>
    /\ lineBuilder = <<>>
    /\ inMultLine = FALSE
    /\ history = <<>>
    /\ historyPath = TRUE
    /\ historySaved = FALSE
    /\ event = Event("start", <<>>, FALSE, <<>>, "none", Quiet)
    /\ track = [n |-> 0, shown |-> <<>>, exhausted |-> FALSE]
    /\ expected = <<>>
    /\ cell \in Cells
    /\ cellStr = kNotRendered
    /\ pageArgs = NoPageArgs
    /\ pageRes = NoPageRes

RenderCell ==
    /\ cellStr = kNotRendered
    /\ cellStr' = colValueStr(cell)
    /\ UNCHANGED <<pc, activeStatement, lineBuilder, inMultLine, history, historyPath,
                   historySaved, event, track, expected, cell, pageArgs, pageRes>>

NextCells == RenderCell

SpecCells == InitCells /\ [][NextCells]_vars

(***************************************************************************)
(* The pager on its own: one call of fetchAndPrintResults on an executed   *)
(* statement, some of whose first rows hold a null value, with the page    *)
(* size of the SQL and .it paths or that of describeTable.                 *)
(***************************************************************************)
PageArgs ==
    {[stmt |-> Execute(WithNulls(NewStatement(n), nulls)), maxResults |-> m] :
        n \in 0..MaxRows, nulls \in SUBSET (1..MaxNullRow), m \in {kPageSize, IntMax}}

InitPage ==
    /\ pc = "prompt"
    /\ activeStatement = <<>>
    /\ lineBuilder = <<>>
    /\ inMultLine = FALSE
    /\ history = <<>>
    /\ historyPath = TRUE
    /\ historySaved = FALSE
    /\ event = Event("start", <<>>, FALSE, <<>>, "none", Quiet)
    /\ track = [n |-> 0, shown |-> <<>>, exhausted |-> FALSE]
    /\ expected = <<>>
    /\ cell = NoCell
    /\ cellStr = kNotRendered
    /\ pageArgs \in {a \in PageArgs : a.stmt.nulls \subseteq 1..a.stmt.n}
    /\ pageRes = NoPageRes

FetchPage ==
    /\ pageRes.outcome = "none"
    /\ \E page \in {fetchAndPrintResults(pageArgs.stmt, pageArgs.maxResults, 0)} :
       \E outcome \in StylingOutcomes(page) :
           pageRes' = [page |-> page, outcome |-> outcome]
    /\ UNCHANGED <<pc, activeStatement, lineBuilder, inMultLine, history, historyPath,
                   historySaved, event, track, expected, cell, cellStr, pageArgs>>

NextPage == FetchPage

SpecPage == InitPage /\ [][NextPage]_vars

(***************************************************************************)
(* Properties.                                                             *)
(***************************************************************************)
PageFetched ==
    /\ event.op \in {"sql", "it"}
    /\ event.page.ran
    /\ ~event.page.threw

\* C1: once the driver has reported the end of a result set of N rows, the
\* rows shown for it over all pages are rows 1..N, each once and in order.
C1_EveryRowShownOnce ==
    track.exhausted =>
        /\ Len(track.shown) = track.n
        /\ \A i \in 1..Len(track.shown) : track.shown[i] = i

\* C2: a page that does not end the result set holds exactly kPageSize rows and
\* does not report exhaustion; the page that ends a result set of N > 0 rows
\* holds N mod kPageSize rows (kPageSize when that is 0) and reports exhaustion.
C2_PagesPartitionTheRows ==
    LET p == event.page
        n == p.stmt.n
        isLast == p.stmt.pos = n
        lastSize == IF n % kPageSize = 0 THEN kPageSize ELSE n % kPageSize
    IN  (PageFetched /\ n > 0) =>
            /\ ~isLast => (Len(p.rendered) = kPageSize /\ ~p.ret)
            /\ isLast => (Len(p.rendered) = lastSize /\ p.ret)

\* C3: after a page fetch during which the driver did not report the end of
\* the result set the statement is still active; after one during which it
\* did, no statement is active.
C3_StatementActiveUntilExhausted ==
    PageFetched =>
        IF event.page.advanceFailed
        THEN activeStatement = <<>>
        ELSE activeStatement # <<>>

\* C4: after a SQL line that executed and whose result set is empty, "No rows
\* returned" was printed and no statement is active.
C4_EmptyResultLeavesNoStatement ==
    (event.op = "sql" /\ ~event.threw /\ event.page.ran /\ event.page.stmt.n = 0) =>
        /\ event.msgs = <<"No rows returned">>
        /\ activeStatement = <<>>

\* C5: .it handled while no statement is active prints "No active statement",
\* makes no driver call and leaves the statement absent, the pending input
\* empty and the history as it was; the loop goes on.
C5_ItWithoutStatementIsInert ==
    [][(pc = "prompt" /\ activeStatement = <<>> /\ event'.op = "it") =>
          /\ event'.msgs = <<"No active statement">>
          /\ event'.calls = 0
          /\ ~event'.page.ran
          /\ activeStatement' = <<>>
          /\ history' = history
          /\ lineBuilder' = <<>>
          /\ inMultLine' = FALSE
          /\ pc' = "prompt"]_vars

C5_Witness ==
    /\ event.op = "it"
    /\ event.msgs = <<"No active statement">>
    /\ activeStatement = <<>>
    /\ pc = "prompt"

\* C6: a raw line ending with the marker produces no logical line; a raw line
\* not ending with it produces the logical line that is the concatenation, in
\* order, of the lines of its sequence with their markers removed.
C6_LogicalLineIsTheConcatenation ==
    [][(pc = "prompt" /\ event'.op \notin {"start", "eof"}) =>
          LET l == event'.raw
          IN  IF l # <<>> /\ l[Len(l)] = kBackslash
              THEN ~event'.produced
              ELSE event'.produced /\ event'.fullLine = expected \o l]_vars

\* C7: an empty logical line is not classified as a command, makes no driver
\* call, prints nothing, is not added to the history and leaves the statement
\* as it was.
C7_EmptyLineIsDiscarded ==
    [][(pc = "prompt" /\ event'.produced /\ event'.fullLine = <<>>) =>
          /\ event'.op = "empty"
          /\ event'.calls = 0
          /\ event'.msgs = <<>>
          /\ history' = history
          /\ activeStatement' = activeStatement
          /\ pc' = "prompt"]_vars

C7_Witness ==
    /\ event.op = "empty"
    /\ event.produced
    /\ event.fullLine = <<>>
    /\ activeStatement # <<>>
    /\ history # <<>>

\* C8: a null column value is rendered as <null>, whatever its type tag.
C8_NullRendersAsNull ==
    (cellStr # kNotRendered /\ cell.isNull) => cellStr = kNullText

\* C9: a driver failure in a SQL line, in .it or in .describe leaves the
\* loop at the next prompt.
C9_DriverFailureKeepsSession ==
    (event.op \in {"sql", "it", "describe"} /\ event.threw) => pc = "prompt"

RECURSIVE Trim(_)
Trim(s) ==
    IF s = <<>> THEN s
    ELSE IF s[1] = " " THEN Trim(Tail(s))
    ELSE IF s[Len(s)] = " " THEN Trim(SubSeq(s, 1, Len(s) - 1))
    ELSE s

\* C11: a non-empty logical line goes to the one handler that the first match
\* on the trimmed line selects: .exit ends the loop, .it continues the fetch,
\* a line starting with ".describe " is described, any other line is SQL.
C11_RoutedByTrimmedLine ==
    LET t == Trim(event.fullLine)
    IN  (event.produced /\ event.fullLine # <<>>) =>
            event.op = IF t = kExit THEN "exit"
                       ELSE IF t = kIt THEN "it"
                       ELSE IF StartsWith(t, kDescribeKeyword) THEN "describe"
                       ELSE "sql"

\* C12: a .describe <table> that is handled prepares exactly one statement,
\* the catalog query, with the table name as its one bound variable, and shows
\* every row of its result in that one page, to the end of the result set.
C12_DescribeShowsWholeListing ==
    LET p == event.page
    IN  (event.op = "describe" /\ ~event.threw) =>
            /\ Len(event.queries) = 1
            /\ event.queries[1].text = describeStmtStr
            /\ event.queries[1].binds =
                   <<SubSeq(event.fullLine, Len(kDescribeKeyword) + 1, Len(event.fullLine))>>
            /\ p.ran /\ p.advanceFailed
            /\ Len(p.rendered) = p.stmt.n
            /\ \A i \in 1..Len(p.rendered) : p.rendered[i] = i

C12_Witness ==
    /\ event.op = "describe"
    /\ ~event.threw
    /\ event.page.stmt.n > kPageSize
    /\ Len(event.page.rendered) = event.page.stmt.n
    /\ event.queries[1].binds = <<<<"t">>>>

\* C13: once the session has ended, by .exit, by end of input or by a driver
\* failure that left the main loop, the history has been saved to the
\* configured path.
C13_HistorySavedOnEveryExit ==
    (pc # "prompt" /\ historyPath) => historySaved

\* C15: fetchAndPrintResults returns true exactly when a fetch() made during
\* the call found no row, the first fetch() of the call included.
C15_ReturnsWhetherAnAdvanceFailed ==
    (event.page.ran /\ ~event.page.threw) =>
        (event.page.ret <=> event.page.advanceFailed)

\* C16: after a SQL line whose prepareStatement or execute failed there is no
\* active statement, neither the one that failed nor the one from before.
C16_FailedSqlLeavesNoStatement ==
    (event.op = "sql" /\ event.fail \in {"prepare", "execute"}) =>
        activeStatement = <<>>

\* C17: a .it that follows a .describe does not advance the statement that was
\* active when the .describe was issued.
C17_DescribeSupersedesStatement ==
    [][(pc = "prompt" /\ event.op = "describe" /\ event'.op = "it"
            /\ activeStatement # <<>>) =>
          /\ event'.page.rendered = <<>>
          /\ event'.page.ran => event'.page.stmt.pos = activeStatement[1].pos]_vars

\* C19: for a page that holds rows, the number printed in "Fetched k rows" is
\* the number of rows in the table printed with it.
C19_FetchedCountIsRowsRendered ==
    (event.page.ran /\ ~event.page.threw /\ ~event.page.noRows) =>
        event.page.fetched = Len(event.page.rendered)

\* C20: at every prompt the continuation prompt is shown exactly when the
\* previous raw line ended with the marker, and with the normal prompt the
\* line buffer is empty.
C20_PromptModeFollowsLastLine ==
    pc = "prompt" =>
        /\ inMultLine <=> (event.raw # <<>> /\ event.raw[Len(event.raw)] = kBackslash)
        /\ ~inMultLine => lineBuilder = <<>>

\* The number a decimal numeral denotes: digits, after "-" for a negative one.
DecimalDigits == <<"0", "1", "2", "3", "4", "5", "6", "7", "8", "9">>

IsNumeral(s) ==
    /\ s # <<>>
    /\ \A i \in 1..Len(s) : \E d \in 1..10 : DecimalDigits[d] = s[i]

RECURSIVE NumeralValue(_)
NumeralValue(s) ==
    IF s = <<>> THEN 0
    ELSE 10 * NumeralValue(SubSeq(s, 1, Len(s) - 1))
           + ((CHOOSE d \in 1..10 : DecimalDigits[d] = s[Len(s)]) - 1)

Denotes(s, v) ==
    IF s # <<>> /\ s[1] = "-"
    THEN IsNumeral(Tail(s)) /\ v < 0 /\ NumeralValue(Tail(s)) = -v
    ELSE IsNumeral(s) /\ NumeralValue(s) = v

\* C14: a value that is not null is rendered by its type tag: a boolean as
\* TRUE or FALSE, bytes between double quotes, int64, uint64, double and float
\* as the decimal numeral of the value (no sign on a uint64), and a value of a
\* tag the switch does not know as "unsupported type".
C14_RenderedByTypeTag ==
    (cellStr # kNotRendered /\ ~cell.isNull) =>
        CASE cell.tag = "boolean" ->
                cellStr = IF AsBool(cell.raw) THEN kTrueText ELSE kFalseText
          [] cell.tag = "bytes" ->
                /\ Len(cellStr) = Len(AsBytes(cell.raw)) + 2
                /\ cellStr[1] = "\"" /\ cellStr[Len(cellStr)] = "\""
                /\ SubSeq(cellStr, 2, Len(cellStr) - 1) = AsBytes(cell.raw)
          [] cell.tag \in {"int64", "double", "float"} -> Denotes(cellStr, AsInt(cell.raw))
          [] cell.tag = "uint64" -> IsNumeral(cellStr) /\ Denotes(cellStr, AsUint(cell.raw))
          [] cell.tag = "timestamp" -> cellStr # kUnsupportedText
          [] OTHER -> cellStr = kUnsupportedText

C14_Witness ==
    /\ ~cell.isNull
    /\ cell.tag = "uint64"
    /\ AsInt(cell.raw) < 0
    /\ cellStr # kNotRendered

\* C18: for every fetched row that holds a null value, the row index used for
\* the styling is the index of a row the table has, and that row is the one
\* just added for the fetched row (table row 0 being the header).
C18_NullStylingHitsItsRow ==
    LET page == pageRes.page
    IN  \A i \in 1..Len(page.styled) :
            LET s == page.styled[i]
            IN  /\ s.index < s.tableRows
                /\ s.index >= 1
                /\ page.rendered[s.index] = s.row

====
